---- MODULE Spec2Model ----
(***************************************************************************)
(* Model of ext/marshaller.c: the attribute resolver                       *)
(* (get_value_from_object), the single-object marshaller (marshal_one)     *)
(* and the entry point (marshaller_marshal).                               *)
(*                                                                         *)
(* Python strings are sequences of one-character strings, so that          *)
(* PyUnicode_Split is computed and not assumed.  Python objects are names  *)
(* into a fixed heap giving, for each object, what PyObject_GetItem and    *)
(* PyObject_GetAttr answer.  The interpreter's error indicator is the      *)
(* variable err.                                                           *)
(***************************************************************************)
EXTENDS Integers, Sequences, FiniteSets, TLC

\* ------------------------------------------------------------------ bounds
MaxKeyLen == 5      \* longest string key drawn for the resolver
MaxIntKey == 1      \* integer keys are 0..MaxIntKey
MaxObjs   == 2      \* longest input list in many mode
MaxFields == 2      \* most fields in a field specification

\* ------------------------------------------------------------- the inputs
Alphabet == {"a", "b", "."}

\* A lookup key: an exact int, an exact str, or anything else.
StrKey(s)  == [t |-> "str", s |-> s, n |-> 0]
IntKey(n)  == [t |-> "int", s |-> <<>>, n |-> n]
OtherKey   == [t |-> "other", s |-> <<>>, n |-> 0]

StrKeys == {StrKey(s) : s \in UNION {[1..n -> Alphabet] : n \in 1..MaxKeyLen}}
IntKeys == {IntKey(n) : n \in 0..MaxIntKey}
Keys    == StrKeys \cup IntKeys \cup {OtherKey}

\* The objects a call can meet.  Sentinel is marshal_one's sentinel_default,
\* None is Py_None; neither is a source object.
Sentinel == "Sentinel"
None     == "None"
NoObj    == "NULL"
Objects  == {"d1", "o2", "d3", "l4", "x5", "n1", "n2"}

NoItems == [k \in {} |-> NoObj]

\* d1: a dict holding an object (o2) that holds a dict (d3); l4: a list;
\* x5: an object answering both [] and getattr for "a", with different
\* values; n1, n2: plain values answering neither.
Heap ==
  [o \in Objects |->
     CASE o = "d1" -> [items |-> (StrKey(<<"a">>) :> "o2") @@ (StrKey(<<"b">>) :> "n1")
                                 @@ (IntKey(0) :> "n2"),
                       attrs |-> NoItems]
       [] o = "o2" -> [items |-> NoItems,
                       attrs |-> (<<"b">> :> "d3") @@ (<<"a">> :> "n2")]
       [] o = "d3" -> [items |-> (StrKey(<<"a">>) :> "n1") @@ (StrKey(<<>>) :> "n2")
                                 @@ (StrKey(<<"a", "b">>) :> "x5"),
                       attrs |-> NoItems]
       [] o = "l4" -> [items |-> (IntKey(0) :> "d1") @@ (IntKey(1) :> "n1"),
                       attrs |-> (<<"a">> :> "d3")]
       [] o = "x5" -> [items |-> (StrKey(<<"a">>) :> "n1") @@ (StrKey(<<"b">>) :> "d1"),
                       attrs |-> (<<"a">> :> "n2") @@ (<<>> :> "l4")]
       [] OTHER    -> [items |-> NoItems, attrs |-> NoItems]]

\* --------------------------------------------------------------- C API
\* PyObject_GetItem(obj, key): the value, or NULL (with an exception set).
GetItem(obj, key) ==
  IF obj \in Objects /\ key \in DOMAIN Heap[obj].items
    THEN Heap[obj].items[key] ELSE NoObj

\* PyObject_GetAttr(obj, name): the value, or NULL (with an exception set).
GetAttr(obj, name) ==
  IF obj \in Objects /\ name \in DOMAIN Heap[obj].attrs
    THEN Heap[obj].attrs[name] ELSE NoObj

\* PyUnicode_Split(key, ".", -1): the pieces between the separators, the
\* empty ones included.
RECURSIVE SplitAcc(_, _, _)
SplitAcc(s, cur, acc) ==
  IF s = <<>> THEN Append(acc, cur)
  ELSE IF Head(s) = "." THEN SplitAcc(Tail(s), <<>>, Append(acc, cur))
  ELSE SplitAcc(Tail(s), Append(cur, Head(s)), acc)

Split(s) == SplitAcc(s, <<>>, <<>>)

\* One access made by the resolver: segment number, object, name, way.
Access(i, o, k, how, got) == [seg |-> i, obj |-> o, key |-> k, how |-> how, got |-> got]

\* ---------------------------------------------- get_value_from_object
\* The answer of the resolver: the object returned, the error indicator
\* afterwards (e is the indicator on entry), and the accesses it made.
Resolved(v, e, tr) == [val |-> v, err |-> e, trace |-> tr]

\* An integer branch that hands the failed lookup to its caller.
ResolveIntPropagate(key, obj, default_obj, e) ==
  LET result == GetItem(obj, key)
      tr     == <<Access(1, obj, key, "item", result)>>
  IN  IF result = NoObj THEN Resolved(NoObj, "unexpected", tr)
      ELSE Resolved(result, e, tr)

\* The integer branch: one PyObject_GetItem; NULL clears the indicator and
\* gives the default.
ResolveInt(key, obj, default_obj, e) ==
  LET result == GetItem(obj, key)
      tr     == <<Access(1, obj, key, "item", result)>>
  IN  IF result = NoObj THEN Resolved(default_obj, "none", tr)
      ELSE Resolved(result, e, tr)

\* A segment with no attribute access to fall back on.
AfterItemFailedNoAttr(prev_obj, item) == NoObj

\* What the second access of a segment gives when PyObject_GetItem failed.
AfterItemFailed(prev_obj, item) == GetAttr(prev_obj, item)

\* The while loop over the split key: keys are the segments left, i the
\* number of the next one.
RECURSIVE Walk(_, _, _, _, _, _)
Walk(keys, i, prev_obj, default_obj, e, tr) ==
  IF keys = <<>> THEN Resolved(prev_obj, e, tr)
  ELSE
    LET item == Head(keys)
        byItem == GetItem(prev_obj, StrKey(item))
        tr1  == Append(tr, Access(i, prev_obj, StrKey(item), "item", byItem))
    IN  IF byItem = NoObj
          THEN LET byAttr == AfterItemFailed(prev_obj, item)
                   tr2 == Append(tr1, Access(i, prev_obj, StrKey(item), "attr", byAttr))
               IN  IF byAttr = NoObj
                     THEN Resolved(default_obj, "none", tr2)
                     ELSE Walk(Tail(keys), i + 1, byAttr, default_obj, "none", tr2)
          ELSE Walk(Tail(keys), i + 1, byItem, default_obj, e, tr1)

\* The string branch.
ResolveStr(key, obj, default_obj, e) ==
  Walk(Split(key.s), 1, obj, default_obj, e, <<>>)

\* Any other key: Py_RETURN_NONE, nothing looked up, nothing raised.
ResolveOther(key, obj, default_obj, e) == Resolved(None, e, <<>>)

get_value_from_object(key, obj, default_obj, e) ==
  IF key.t = "int" THEN ResolveInt(key, obj, default_obj, e)
  ELSE IF key.t = "str" THEN ResolveStr(key, obj, default_obj, e)
  ELSE ResolveOther(key, obj, default_obj, e)

\* ------------------------------------------------------- field handlers
\* The handlers a field specification can hold.  "required" raises the
\* validation error for the sentinel default and serializes anything else;
\* "invalid" always raises the validation error; "broken" always raises
\* some other exception.
Handlers == {"required", "invalid", "broken"}

\* What field._serialize(value, key, obj) raises: "none" when it returns.
Raises(h, value) ==
  CASE h = "required" -> IF value = Sentinel THEN "validation" ELSE "none"
    [] h = "invalid"  -> "validation"
    [] OTHER          -> "unexpected"

\* What it returns when it returns.
Serialized(h, value, key, o) == [by |-> h, of |-> value, name |-> key, from |-> o]

\* The result of a call: NULL with the indicator set, or a value.
Null(e)       == [null |-> TRUE,  v |-> [by |-> "", of |-> NoObj, name |-> OtherKey, from |-> NoObj], err |-> e]
Value(v, e)   == [null |-> FALSE, v |-> v, err |-> e]

\* PyObject_CallFunctionObjArgs(field_serialize_func, value, key, obj, NULL),
\* entered with the indicator e.  With no exception pending the handler
\* decides.  marshal_one never clears the indicator, so a later call can be
\* entered with the exception of an earlier field still pending, which the
\* C API does not allow; the interpreter can then deliver the handler's own
\* outcome, or a value with the stale exception still set, or NULL with the
\* stale exception, or NULL with a SystemError raised on the result.
CallFunctionObjArgs(h, value, key, o, e) ==
  LET own == IF Raises(h, value) = "none"
               THEN Value(Serialized(h, value, key, o), "none")
               ELSE Null(Raises(h, value))
  IN  IF e = "none" THEN {own}
      ELSE IF own.null THEN {own, Null(e)}
      ELSE {own, Value(own.v, e), Null(e), Null("unexpected")}

\* PyErr_ExceptionMatches(validation_error)
ExceptionMatches(e) == e = "validation"

\* A loop body that stores whatever the call gave.
StoreAlways(result, key, out) ==
  [k \in DOMAIN result \cup {key} |-> IF k = key THEN out.v ELSE result[k]]

\* Lines 83-88: what the loop body does to result with the call's outcome.
StoreResult(result, key, out) ==
  IF out.null THEN result
  ELSE [k \in DOMAIN result \cup {key} |-> IF k = key THEN out.v ELSE result[k]]

\* PyList_New(length): length empty slots.
EmptySlot == [null |-> TRUE, d |-> NoItems]
ListNew(length) == [i \in 1..length |-> EmptySlot]

\* PyList_SetItem(ret, index, item), index counted from 0.
ListSetItem(ret, index, item) ==
  [ret EXCEPT ![index + 1] = [null |-> FALSE, d |-> item]]

\* A loop test that leaves the last element out.
InLoopShort(index, length) == index + 1 < length

\* The loop test of line 118.
InLoop(index, length) == index < length

\* ------------------------------------------------------------------ state
VARIABLES
  obj,        \* the objects to marshal: the list in many mode, else <<the object>>
  fields,     \* the field specification, in its iteration order
  many,
  pc,         \* where marshaller_marshal is
  index,      \* the loop variable of line 118 (0 in single mode)
  pos,        \* fields already gone through by marshal_one's loop
  result,     \* marshal_one's dict
  retList,    \* ret of line 117
  retDict,    \* ret of line 129
  errors,     \* errors of line 114
  err,        \* the interpreter's error indicator
  retval,     \* what marshaller_marshal returned: "tuple", "NULL", or "none" yet
  calls,      \* the handler calls made so far, in order
  stdout,     \* lines written by PySys_WriteStdout
  rkey, robj, rerr,   \* the resolver alone: its key, its object, the indicator
  rout, rpc           \* its answer, and whether it has been called

mvars == <<obj, fields, many, pc, index, pos, result, retList, retDict, errors,
           err, retval, calls, stdout>>
rvars == <<rkey, robj, rerr, rout, rpc>>
vars  == <<mvars, rvars>>

ErrKinds == {"none", "validation", "unexpected"}

\* ------------------------------------------------------ the marshaller
FieldKeys == {StrKey(<<"a", ".", "b">>), IntKey(0), OtherKey}
Roots == {"d1", "l4"}

Field(k, h) == [key |-> k, handler |-> h]

\* A dict of fields: no key twice.
FieldSpecs ==
  {fs \in UNION {[1..n -> {Field(k, h) : k \in FieldKeys, h \in Handlers}] : n \in 0..MaxFields} :
     \A i, j \in DOMAIN fs : i # j => fs[i].key # fs[j].key}

ResolverIdle ==
  /\ rkey = OtherKey
  /\ robj = NoObj
  /\ rerr = "none"
  /\ rout = Resolved(NoObj, "none", <<>>)
  /\ rpc = "idle"

MarshalIdle ==
  /\ obj = <<>>
  /\ fields = <<>>
  /\ many = FALSE
  /\ pc = "idle"
  /\ index = 0
  /\ pos = 0
  /\ result = NoItems
  /\ retList = <<>>
  /\ retDict = NoItems
  /\ errors = NoItems
  /\ err = "none"
  /\ retval = "none"
  /\ calls = <<>>
  /\ stdout = 0

\* Line 89: the loop goes on to the next field whatever the outcome.
AfterField(p, out) == p + 1

\* After PyArg_ParseTuple.
Init ==
  /\ many \in BOOLEAN
  /\ obj \in IF many THEN UNION {[1..n -> Roots] : n \in 0..MaxObjs}
                     ELSE [1..1 -> Roots]
  /\ fields \in FieldSpecs
  /\ pc = "parsed"
  /\ index = 0
  /\ pos = 0
  /\ result = NoItems
  /\ retList = <<>>
  /\ retDict = NoItems
  /\ errors = NoItems
  /\ err = "none"
  /\ retval = "none"
  /\ calls = <<>>
  /\ stdout = 0
  /\ ResolverIdle

\* Lines 114-117: errors = {}, and in many mode the list of length slots.
Begin ==
  /\ pc = "parsed"
  /\ errors' = NoItems
  /\ retList' = IF many THEN ListNew(Len(obj)) ELSE retList
  /\ index' = 0
  /\ pc' = IF many THEN "for" ELSE "one"
  /\ UNCHANGED <<obj, fields, many, pos, result, retDict, err, retval, calls, stdout>>

\* Line 118 holding, or line 129: marshal_one is entered (lines 65-74).
EnterMarshalOne ==
  /\ \/ pc = "for" /\ InLoop(index, Len(obj))
     \/ pc = "one"
  /\ result' = NoItems
  /\ pos' = 0
  /\ pc' = "fields"
  /\ UNCHANGED <<obj, fields, many, index, retList, retDict, errors, err, retval,
                 calls, stdout>>

\* Lines 76-89: one turn of marshal_one's loop.
MarshalField ==
  /\ pc = "fields"
  /\ pos < Len(fields)
  /\ LET key   == fields[pos + 1].key
         h     == fields[pos + 1].handler
         o     == obj[index + 1]
         value == get_value_from_object(key, o, Sentinel, err)
     IN  \E out \in CallFunctionObjArgs(h, value.val, key, o, value.err) :
           /\ calls' = Append(calls, [index |-> index, key |-> key, value |-> value.val,
                                      obj |-> o, handler |-> h, pending |-> value.err,
                                      null |-> out.null, v |-> out.v, err |-> out.err])
           /\ stdout' = IF out.null /\ ExceptionMatches(out.err) THEN stdout + 1 ELSE stdout
           /\ result' = StoreResult(result, key, out)
           /\ err' = out.err
           /\ pos' = AfterField(pos, out)
  /\ UNCHANGED <<obj, fields, many, pc, index, retList, retDict, errors, retval>>

\* Line 76 failing and line 91: marshal_one returns result, which goes into
\* the list (lines 122-123) or is ret (line 129).
LeaveMarshalOne ==
  /\ pc = "fields"
  /\ pos >= Len(fields)
  /\ IF many
       THEN /\ retList' = ListSetItem(retList, index, result)
            /\ index' = index + 1
            /\ pc' = "for"
            /\ UNCHANGED retDict
       ELSE /\ retDict' = result
            /\ pc' = "return"
            /\ UNCHANGED <<retList, index>>
  /\ UNCHANGED <<obj, fields, many, pos, result, errors, err, retval, calls, stdout>>

\* Lines 127 and 130: Py_BuildValue("(OO)", ret, errors) is returned.
Return ==
  /\ \/ pc = "for" /\ ~InLoop(index, Len(obj))
     \/ pc = "return"
  /\ retval' = "tuple"
  /\ pc' = "done"
  /\ UNCHANGED <<obj, fields, many, index, pos, result, retList, retDict, errors, err,
                 calls, stdout>>

Next ==
  \/ Begin /\ UNCHANGED rvars
  \/ EnterMarshalOne /\ UNCHANGED rvars
  \/ MarshalField /\ UNCHANGED rvars
  \/ LeaveMarshalOne /\ UNCHANGED rvars
  \/ Return /\ UNCHANGED rvars

Spec == Init /\ [][Next]_vars

\* ------------------------------------------------- the resolver alone
InitResolve ==
  /\ rkey \in Keys
  /\ robj \in Objects
  /\ rerr \in ErrKinds
  /\ rout = Resolved(NoObj, "none", <<>>)
  /\ rpc = "call"
  /\ MarshalIdle

CallResolve ==
  /\ rpc = "call"
  /\ rpc' = "done"
  /\ rout' = get_value_from_object(rkey, robj, Sentinel, rerr)
  /\ UNCHANGED <<rkey, robj, rerr>>
  /\ UNCHANGED mvars

NextResolve == CallResolve

SpecResolve == InitResolve /\ [][NextResolve]_vars

\* ----------------------------------------------------------- the claims
NF == Len(fields)

\* The handler calls made for the object at index i (from 0).
CallsOf(i) == {n \in DOMAIN calls : calls[n].index = i}

\* A call that raised the validation error / some other exception.
RaisedValidation(n) == calls[n].null /\ calls[n].err = "validation"
RaisedOther(n)      == calls[n].null /\ calls[n].err # "validation"

\* marshal_one has returned for the object at index i, and what it returned.
Finished(i) == IF many THEN i < index ELSE pc \in {"return", "done"}
Output(i)   == IF many THEN retList[i + 1].d ELSE retDict

\* C1: the mapping marshal_one returns holds no key of a field whose
\* serialize call raised the validation error; each key it holds is the
\* name of a field whose call returned, with the value that call returned.
C1_OutputOnlySucceeded ==
  \A i \in 0..(Len(obj) - 1) :
    Finished(i) =>
      /\ \A n \in CallsOf(i) : RaisedValidation(n) => calls[n].key \notin DOMAIN Output(i)
      /\ \A k \in DOMAIN Output(i) :
           \E n \in CallsOf(i) :
             /\ calls[n].key = k
             /\ ~calls[n].null
             /\ Output(i)[k] = calls[n].v

\* An object marshalled with one field failing validation and another
\* written to the output.
C1_Witness ==
  /\ pc = "done"
  /\ \E i \in 0..(Len(obj) - 1) :
       /\ \E n \in CallsOf(i) : RaisedValidation(n)
       /\ DOMAIN Output(i) # {}

\* C2 (as claimed): in single-object mode every field whose handler raised
\* the validation error has an entry under its name in the errors returned.
C2_ErrorsRecorded ==
  (~many /\ retval = "tuple") =>
    \A n \in DOMAIN calls : RaisedValidation(n) => calls[n].key \in DOMAIN errors

\* C3 (as claimed): a call failing with anything but the validation error
\* is the last call made, and the caller does not get a tuple.
C3_AbortOnUnexpected ==
  \A n \in DOMAIN calls :
    RaisedOther(n) => n = Len(calls) /\ retval # "tuple"

\* No field has a key of another type or a handler failing otherwise than
\* by the validation error.
OnlyValidationFailures ==
  \A j \in DOMAIN fields : fields[j].key.t # "other" /\ fields[j].handler # "broken"

\* C4 (as claimed): for every object, each field's handler is called once,
\* in the field specification's order, with the value resolved for that
\* field on that object, whatever the earlier calls raised; and, when
\* validation errors are the only failures, every field whose handler
\* serializes its value is written to the object's output.
C4_SiblingsNotSuppressed ==
  /\ Len(calls) = CASE pc = "parsed" -> 0
                    [] pc \in {"one", "return", "fields"} -> index * NF + pos
                    [] pc = "for" -> index * NF
                    [] OTHER -> Len(obj) * NF
  /\ \A n \in DOMAIN calls :
       LET i == (n - 1) \div NF
           f == fields[((n - 1) % NF) + 1]
       IN  /\ calls[n].index = i
           /\ calls[n].key = f.key
           /\ calls[n].handler = f.handler
           /\ calls[n].obj = obj[i + 1]
           /\ calls[n].value = get_value_from_object(f.key, obj[i + 1], Sentinel, "none").val
  /\ OnlyValidationFailures =>
       \A i \in 0..(Len(obj) - 1) :
         Finished(i) =>
           \A n \in CallsOf(i) :
             Raises(calls[n].handler, calls[n].value) = "none" =>
               /\ calls[n].key \in DOMAIN Output(i)
               /\ Output(i)[calls[n].key] =
                    Serialized(calls[n].handler, calls[n].value, calls[n].key, calls[n].obj)

\* The mapping built from the calls made for the object at index i.
Marshalled(i) ==
  [k \in {calls[n].key : n \in {m \in CallsOf(i) : ~calls[m].null}} |->
     calls[CHOOSE n \in CallsOf(i) : calls[n].key = k].v]

C6_ErrorsByIndex ==
  (many /\ retval = "tuple") =>
    \A i \in 0..(Len(obj) - 1) :
      (i \in DOMAIN errors) <=> (\E n \in CallsOf(i) : RaisedValidation(n))

\* C7: for a string key the resolver goes through the segments in order,
\* tries each by item and by attribute only when the item access failed,
\* goes on from what the access gave, returns the last segment's value when
\* every segment resolved, and otherwise returns the default having tried
\* no segment after the one that failed.
C7_DottedPath ==
  (rpc = "done" /\ rkey.t = "str") =>
    LET segs == Split(rkey.s)
        tr   == rout.trace
        last == tr[Len(tr)]
    IN  /\ Len(tr) >= 1
        /\ tr[1].seg = 1 /\ tr[1].obj = robj /\ tr[1].how = "item"
        /\ \A j \in DOMAIN tr :
             /\ tr[j].seg \in 1..Len(segs)
             /\ tr[j].key = StrKey(segs[tr[j].seg])
             /\ tr[j].got = IF tr[j].how = "item" THEN GetItem(tr[j].obj, tr[j].key)
                                                  ELSE GetAttr(tr[j].obj, tr[j].key.s)
        /\ \A j \in 1..(Len(tr) - 1) :
             IF tr[j].got = NoObj
               THEN /\ tr[j].how = "item"
                    /\ tr[j + 1].how = "attr"
                    /\ tr[j + 1].seg = tr[j].seg
                    /\ tr[j + 1].obj = tr[j].obj
               ELSE /\ tr[j + 1].how = "item"
                    /\ tr[j + 1].seg = tr[j].seg + 1
                    /\ tr[j + 1].obj = tr[j].got
        /\ IF last.got = NoObj
             THEN last.how = "attr" /\ rout.val = Sentinel
             ELSE last.seg = Len(segs) /\ rout.val = last.got
        /\ (rout.val # Sentinel) <=>
             (\A s \in 1..Len(segs) : \E j \in DOMAIN tr : tr[j].seg = s /\ tr[j].got # NoObj)

\* A three-segment key whose second segment fails both ways, though its
\* third segment names an item of the object.
C7_Witness ==
  /\ rpc = "done"
  /\ rkey.t = "str"
  /\ Len(Split(rkey.s)) = 3
  /\ rout.trace[Len(rout.trace)].seg = 2
  /\ rout.val = Sentinel
  /\ GetItem(robj, StrKey(Split(rkey.s)[3])) # NoObj

\* C8: for an integer key the resolver makes one item access, returns its
\* value if it succeeds, and otherwise returns the default with no error
\* left for the caller.
C8_IntegerKey ==
  (rpc = "done" /\ rkey.t = "int") =>
    /\ Len(rout.trace) = 1
    /\ rout.trace[1].how = "item"
    /\ rout.trace[1].obj = robj
    /\ rout.trace[1].key = rkey
    /\ rout.val # NoObj
    /\ IF (rkey \in DOMAIN Heap[robj].items)
         THEN rout.val = Heap[robj].items[rkey]
         ELSE rout.val = Sentinel /\ rout.err = "none"

\* An integer key missing from an object that has attributes, looked up
\* with an exception pending.
C8_Witness ==
  /\ rpc = "done"
  /\ rkey.t = "int"
  /\ rkey \notin DOMAIN Heap[robj].items
  /\ DOMAIN Heap[robj].attrs # {}
  /\ rout.val = Sentinel

\* C9 (as claimed): a key that is neither an integer nor a string is
\* rejected: no handler is called with a value standing for it.
C9_InvalidKeyRejected ==
  \A n \in DOMAIN calls : calls[n].key.t \in {"int", "str"}

\* C10 (as claimed): a tuple is never returned with the error indicator set.
C10_NoPendingErrorOnReturn ==
  retval = "tuple" => err = "none"
====
